---- MODULE Spec2Model ----
(***************************************************************************)
(* Model of gollm/xai/hack/gen-xai-protos.py: the script that probes for   *)
(* its tools, clones xai-sdk-python into a scratch workspace, assembles a  *)
(* FileDescriptorSet by a depth-first walk over descriptor dependencies    *)
(* and hands it to protoc.                                                 *)
(*                                                                         *)
(* A process (an invocation of the script) is identified by r \in Procs.   *)
(* The file system (scratch workspaces, generated output) is shared by all *)
(* processes and outlives them; everything else is process memory or a     *)
(* history variable recording what the process did.                       *)
(***************************************************************************)
EXTENDS Integers, Sequences, FiniteSets, TLC

(* ---------------------------------------------------------------- bounds *)

\* Files of the upstream package that are not one of the three root modules.
NumExtra == 1
\* Dependency edges the upstream package may declare (runs taken one at a time).
MaxEdges == 3
\* Dependency edges the upstream package may declare when runs overlap.
ConcEdges == 0

(* ------------------------------------------------------------- constants *)

\* The three generated modules, named by the descriptor file they hold.
COLLECTIONS == 1
TYPES == 2
SHARED == 3

\* modules, in the order build_descriptor_set imports them.
modules == <<COLLECTIONS, TYPES, SHARED>>

\* PROTO_FILES, the generation targets, in the order of the source.
PROTO_FILES == <<COLLECTIONS, SHARED, TYPES>>

\* MAPPINGS: target proto file -> Go package under GO_MODULE.
MAPPINGS == (COLLECTIONS :> "api/v1/collectionspb") @@ (SHARED :> "api/v1/sharedpb")
            @@ (TYPES :> "api/v1/ragpb")

\* The tools the entry point requires, in the order it probes them.
REQUIRED == <<"git", "protoc", "protoc-gen-go", "protoc-gen-go-grpc", "protoc-gen-go-vtproto">>

\* The three output flags of the protoc command line.
OUT_FLAGS == {"go_out", "go-grpc_out", "go-vtproto_out"}

\* Descriptor files of the upstream package.
Files == 1..(Len(modules) + NumExtra)

\* Invocations of the script that may be alive at the same time.
Procs == {"p", "q"}

\* Values of XAI_PY_PROTO_TMP: the scratch workspace a run targets.
ScratchPaths == {"tmpA", "tmpB"}

\* Owner tag of a file-system object: the process that produced it.
NoOne == "none"

\* A scratch path with nothing at it.
Absent == [exists |-> FALSE, clone |-> NoOne, desc |-> NoOne]

\* The pipeline's stages, in order.
STAGES == <<"probe", "clone", "assemble", "generate">>

VARIABLES
    pc,         \* pc[r]: where process r is
    tmp,        \* tmp[r]: paths.tmp of process r
    exitCode,   \* exitCode[r]: -1 while running, else the exit status
    fs,         \* fs[p]: what is at scratch path p
    generated,  \* generated Go files under paths.root: <<package, out flag>>
    rootIdx,    \* rootIdx[r]: index of mod_name in the loop over modules
    seen,       \* seen[r]: the set seen of build_descriptor_set
    fdset,      \* fdset[r]: fdset.file, as the sequence of file names
    stack,      \* stack[r]: the call stack of add
    deps,       \* deps[r][f]: fd.dependencies of file f, as read by r
    bodyRuns,   \* bodyRuns[r][f]: how often add's body ran for f
    obs         \* obs[r]: history of the run (what it probed, invoked, wrote)

vars == <<pc, tmp, exitCode, fs, generated, rootIdx, seen, fdset, stack, deps,
          bodyRuns, obs>>

walkVars == <<rootIdx, seen, fdset, stack, deps, bodyRuns>>

NoCmd == [in |-> <<>>, targets |-> <<>>, outs |-> {}]

FreshObs == [missing |-> "none", probed |-> 0, failedAt |-> "none",
             gitCalls |-> 0, protocCalls |-> 0, wsRemoved |-> FALSE,
             wsCreated |-> FALSE, cloneOk |-> FALSE, descWritten |-> FALSE,
             imported |-> 0, addCalls |-> 0, trace |-> <<>>, completed |-> {},
             protocCmd |-> NoCmd]

NoDeps == [f \in Files |-> {}]
NoRuns == [f \in Files |-> 0]

Init ==
    /\ pc = [r \in Procs |-> "idle"]
    /\ tmp = [r \in Procs |-> "tmpA"]
    /\ exitCode = [r \in Procs |-> -1]
    /\ fs = [p \in ScratchPaths |-> Absent]
    /\ generated = {}
    /\ rootIdx = [r \in Procs |-> 0]
    /\ seen = [r \in Procs |-> {}]
    /\ fdset = [r \in Procs |-> <<>>]
    /\ stack = [r \in Procs |-> <<>>]
    /\ deps = [r \in Procs |-> NoDeps]
    /\ bodyRuns = [r \in Procs |-> NoRuns]
    /\ obs = [r \in Procs |-> FreshObs]

(* ----------------------------------------------------------- helpers *)

Range(s) == {s[i] : i \in 1..Len(s)}

RECURSIVE EdgesUpTo(_, _)
EdgesUpTo(d, n) == IF n = 0 THEN 0 ELSE Cardinality(d[n]) + EdgesUpTo(d, n - 1)

\* Number of dependency edges read so far.
EdgeCount(d) == EdgesUpTo(d, Len(modules) + NumExtra)

\* The process's memory is gone when it exits.
ClearWalk(r) ==
    /\ rootIdx' = [rootIdx EXCEPT ![r] = 0]
    /\ seen' = [seen EXCEPT ![r] = {}]
    /\ fdset' = [fdset EXCEPT ![r] = <<>>]
    /\ stack' = [stack EXCEPT ![r] = <<>>]
    /\ deps' = [deps EXCEPT ![r] = NoDeps]
    /\ bodyRuns' = [bodyRuns EXCEPT ![r] = NoRuns]

\* sys.exit(message) or an uncaught exception: the process ends with status 1.
Die(r, stage, o) ==
    /\ pc' = [pc EXCEPT ![r] = "exit"]
    /\ exitCode' = [exitCode EXCEPT ![r] = 1]
    /\ obs' = [obs EXCEPT ![r] = [o EXCEPT !.failedAt = stage]]
    /\ ClearWalk(r)

\* The script is launched: a new process, with XAI_PY_PROTO_TMP drawn from
\* paths.
Start(r, paths) ==
    /\ pc[r] \in {"idle", "exit"}
    /\ \E p \in paths : tmp' = [tmp EXCEPT ![r] = p]
    /\ pc' = [pc EXCEPT ![r] = "toolsdir"]
    /\ exitCode' = [exitCode EXCEPT ![r] = -1]
    /\ obs' = [obs EXCEPT ![r] = FreshObs]
    /\ ClearWalk(r)
    /\ UNCHANGED <<fs, generated>>

\* __main__: tool_dir.is_dir(), else sys.exit; then PATH is extended.
ToolsDir(r) ==
    /\ pc[r] = "toolsdir"
    /\ \E isDir \in BOOLEAN :
        IF isDir
        THEN /\ pc' = [pc EXCEPT ![r] = "require"]
             /\ obs' = [obs EXCEPT ![r].trace = Append(@, "probe")]
             /\ UNCHANGED <<exitCode, walkVars>>
        ELSE Die(r, "toolsdir", obs[r])
    /\ UNCHANGED <<tmp, fs, generated>>

\* A require that reports nothing: it returns whatever shutil.which found.
RequireAlwaysReturns(found) == "return"

\* require: sys.exit when shutil.which finds nothing, else return.
RequireOutcome(found) == IF found THEN "return" ELSE "exit"

\* One require(cmd) call of __main__, for the next tool of REQUIRED.
Require(r) ==
    /\ pc[r] = "require"
    /\ \E found \in BOOLEAN :
        LET tool == REQUIRED[obs[r].probed + 1]
            last == obs[r].probed + 1 = Len(REQUIRED)
            o == [obs[r] EXCEPT !.probed = @ + 1,
                                !.missing = IF found THEN @ ELSE tool,
                                !.completed = IF last /\ found
                                              THEN @ \cup {"probe"} ELSE @]
        IN  IF RequireOutcome(found) = "exit"
            THEN Die(r, "require", o)
            ELSE /\ pc' = [pc EXCEPT ![r] = IF last THEN "main" ELSE "require"]
                 /\ obs' = [obs EXCEPT ![r] = o]
                 /\ UNCHANGED <<exitCode, walkVars>>
    /\ UNCHANGED <<tmp, fs, generated>>

\* A main that keeps what an earlier run left in the workspace.
SkipRmtree(exists) == "mkdir"

\* main: if paths.tmp.exists() then rmtree; mkdir follows either way.
MainExistsNext(exists) == IF exists THEN "rmtree" ELSE "mkdir"

\* main up to the test paths.tmp.exists().
Main(r) ==
    /\ pc[r] = "main"
    /\ pc' = [pc EXCEPT ![r] = MainExistsNext(fs[tmp[r]].exists)]
    /\ UNCHANGED <<tmp, exitCode, fs, generated, walkVars, obs>>

\* A reset that spares the tree it finds.
RmtreeLeavesTree(entry) == entry

\* shutil.rmtree(paths.tmp): the whole tree goes, whoever put it there.
RmtreeResult(entry) == Absent

\* main: shutil.rmtree(paths.tmp); FileNotFoundError when the tree is gone.
Rmtree(r) ==
    /\ pc[r] = "rmtree"
    /\ IF fs[tmp[r]].exists
       THEN /\ fs' = [fs EXCEPT ![tmp[r]] = RmtreeResult(@)]
            /\ pc' = [pc EXCEPT ![r] = "mkdir"]
            /\ obs' = [obs EXCEPT ![r].wsRemoved = TRUE]
            /\ UNCHANGED <<exitCode, walkVars>>
       ELSE /\ Die(r, "rmtree", obs[r])
            /\ UNCHANGED fs
    /\ UNCHANGED <<tmp, generated>>

\* main: paths.tmp.mkdir(parents=True, exist_ok=True).
Mkdir(r) ==
    /\ pc[r] = "mkdir"
    /\ fs' = [fs EXCEPT ![tmp[r]].exists = TRUE]
    /\ pc' = [pc EXCEPT ![r] = "clone"]
    /\ obs' = [obs EXCEPT ![r].wsCreated = TRUE]
    /\ UNCHANGED <<tmp, exitCode, generated, walkVars>>

\* subprocess.run without check=True: a failed clone goes unnoticed.
CloneUnchecked(ok) == "build"

\* A clone that is tried again when it fails.
CloneRetries(ok) == IF ok THEN "build" ELSE "clone"

\* clone_python_sdk: subprocess.run(..., check=True) raises on a non-zero exit.
CloneOutcome(ok) == IF ok THEN "build" ELSE "exit"

\* clone_python_sdk: one git clone into paths.clone. git fails when the ref
\* does not exist or the network fails (refOk) and when the destination
\* already holds a tree; it creates the leading directories itself.
Clone(r) ==
    /\ pc[r] = "clone"
    /\ \E refOk \in BOOLEAN :
        LET ok == refOk /\ fs[tmp[r]].clone = NoOne
            o == [obs[r] EXCEPT !.gitCalls = @ + 1,
                                !.trace = Append(@, "clone"),
                                !.cloneOk = ok,
                                !.completed = IF ok THEN @ \cup {"clone"} ELSE @]
        IN  /\ fs' = IF ok
                     THEN [fs EXCEPT ![tmp[r]] = [@ EXCEPT !.exists = TRUE, !.clone = r]]
                     ELSE fs
            /\ IF CloneOutcome(ok) = "exit"
               THEN Die(r, "clone", o)
               ELSE /\ pc' = [pc EXCEPT ![r] = CloneOutcome(ok)]
                    /\ obs' = [obs EXCEPT ![r] = o]
                    /\ UNCHANGED <<exitCode, walkVars>>
    /\ UNCHANGED <<tmp, generated>>

\* build_descriptor_set up to the loop: sys.path, modules, seen, fdset.
Build(r) ==
    /\ pc[r] = "build"
    /\ rootIdx' = [rootIdx EXCEPT ![r] = 1]
    /\ seen' = [seen EXCEPT ![r] = {}]
    /\ fdset' = [fdset EXCEPT ![r] = <<>>]
    /\ stack' = [stack EXCEPT ![r] = <<>>]
    /\ pc' = [pc EXCEPT ![r] = "import"]
    /\ obs' = [obs EXCEPT ![r].trace = Append(@, "assemble")]
    /\ UNCHANGED <<tmp, exitCode, fs, generated, deps, bodyRuns>>

\* A call add(fd): a new frame on the call stack.
Frame(f) == [fd |-> f, todo |-> {}, entered |-> FALSE]

\* for mod_name in modules: importlib.import_module(mod_name); add(mod.DESCRIPTOR).
\* A module already loaded as a dependency of an earlier one comes from
\* sys.modules; any other is read from the clone tree and fails to import when
\* the tree is missing or its layout changed.
Import(r) ==
    /\ pc[r] = "import"
    /\ IF rootIdx[r] > Len(modules)
       THEN /\ pc' = [pc EXCEPT ![r] = "write"]
            /\ UNCHANGED <<exitCode, walkVars, obs>>
       ELSE \E layoutOk \in BOOLEAN :
            LET m == modules[rootIdx[r]]
                ok == m \in seen[r] \/ (layoutOk /\ fs[tmp[r]].clone # NoOne)
            IN  IF ok
                THEN /\ stack' = [stack EXCEPT ![r] = Append(@, Frame(m))]
                     /\ pc' = [pc EXCEPT ![r] = "add"]
                     /\ obs' = [obs EXCEPT ![r].imported = @ + 1,
                                           ![r].addCalls = @ + 1]
                     /\ UNCHANGED <<exitCode, rootIdx, seen, fdset, deps, bodyRuns>>
                ELSE Die(r, "import", obs[r])
    /\ UNCHANGED <<tmp, fs, generated>>

\* add returns: its frame is popped; back in the loop over modules when the
\* stack is empty.
Return(r) ==
    /\ stack' = [stack EXCEPT ![r] = SubSeq(@, 1, Len(@) - 1)]
    /\ IF Len(stack[r]) = 1
       THEN /\ rootIdx' = [rootIdx EXCEPT ![r] = @ + 1]
            /\ pc' = [pc EXCEPT ![r] = "import"]
       ELSE UNCHANGED <<rootIdx, pc>>

\* An add without its guard.
NeverSeen(f, s) == FALSE

\* add: if fd.name in seen: return.
AlreadySeen(f, s) == f \in s

\* An add that does not record the file before it visits the dependencies.
MarkNothing(f, s) == s

\* add: seen.add(fd.name), before the dependencies are visited.
MarkSeen(f, s) == s \cup {f}

\* An add that does not descend.
RecurseNone(D) == {}

\* An add that descends into one dependency only.
RecurseOne(D) == IF D = {} THEN {} ELSE {CHOOSE d \in D : TRUE}

\* add: for dep in fd.dependencies: the dependencies add is called on.
Recurse(D) == D

\* add, from its entry to the head of its loop. fd.dependencies is read here:
\* the package's dependency graph is an input, drawn when first read (at most
\* maxEdges edges in all) and the same on every later read. FromString of
\* fd.serialized_pb keeps the file's name, which is all the model keeps.
Add(r, maxEdges) ==
    /\ pc[r] = "add"
    /\ stack[r] # <<>>
    /\ LET top == stack[r][Len(stack[r])]
           f == top.fd
       IN  /\ ~top.entered
           /\ IF AlreadySeen(f, seen[r])
              THEN /\ Return(r)
                   /\ UNCHANGED <<seen, fdset, deps, bodyRuns>>
              ELSE /\ \E D \in SUBSET Files :
                        /\ IF bodyRuns[r][f] > 0
                           THEN D = deps[r][f]
                           ELSE Cardinality(D) + EdgeCount(deps[r]) <= maxEdges
                        /\ deps' = [deps EXCEPT ![r][f] = D]
                        /\ stack' = [stack EXCEPT ![r][Len(stack[r])] =
                                       [fd |-> f, todo |-> Recurse(D), entered |-> TRUE]]
                   /\ seen' = [seen EXCEPT ![r] = MarkSeen(f, @)]
                   /\ fdset' = [fdset EXCEPT ![r] = Append(@, f)]
                   /\ bodyRuns' = [bodyRuns EXCEPT ![r][f] = @ + 1]
                   /\ UNCHANGED <<rootIdx, pc>>
    /\ UNCHANGED <<tmp, exitCode, fs, generated, obs>>

\* add's loop: the next dependency is visited (the order of fd.dependencies
\* is an input), or the loop is over and add returns.
AddLoop(r) ==
    /\ pc[r] = "add"
    /\ stack[r] # <<>>
    /\ LET n == Len(stack[r])
           top == stack[r][n]
       IN  /\ top.entered
           /\ IF top.todo = {}
              THEN /\ Return(r)
                   /\ UNCHANGED obs
              ELSE /\ \E d \in top.todo :
                        stack' = [stack EXCEPT ![r] =
                                    Append([@ EXCEPT ![n].todo = top.todo \ {d}], Frame(d))]
                   /\ obs' = [obs EXCEPT ![r].addCalls = @ + 1]
                   /\ UNCHANGED <<rootIdx, pc>>
    /\ UNCHANGED <<tmp, exitCode, fs, generated, seen, fdset, deps, bodyRuns>>

\* build_descriptor_set: paths.desc.parent.mkdir; paths.desc.write_bytes.
Write(r) ==
    /\ pc[r] = "write"
    /\ fs' = [fs EXCEPT ![tmp[r]] = [@ EXCEPT !.exists = TRUE, !.desc = r]]
    /\ pc' = [pc EXCEPT ![r] = "protoc"]
    /\ obs' = [obs EXCEPT ![r].descWritten = TRUE,
                          ![r].completed = @ \cup {"assemble"}]
    /\ UNCHANGED <<tmp, exitCode, generated, walkVars>>

\* A command line that leaves out the last target.
TargetsWithoutTypes == <<COLLECTIONS, SHARED>>

\* protoc_generate: the files named after --descriptor_set_in.
ProtocTargets == PROTO_FILES

\* protoc_generate: the command line.
ProtocCmd(r) == [in |-> <<tmp[r]>>, targets |-> ProtocTargets, outs |-> OUT_FLAGS]

\* What protoc writes under paths.root when it succeeds: one file per target
\* and output flag, in the target's package.
Outputs(cmd) == {<<MAPPINGS[cmd.targets[i]], o>> : i \in 1..Len(cmd.targets), o \in cmd.outs}

\* protoc_generate: one subprocess.run(cmd, check=True), then main's print and
\* the end of the process. protoc fails when the descriptor file is missing
\* or on its own account (toolOk).
Protoc(r) ==
    /\ pc[r] = "protoc"
    /\ \E toolOk \in BOOLEAN :
        LET ok == toolOk /\ fs[tmp[r]].desc # NoOne
            o == [obs[r] EXCEPT !.protocCalls = @ + 1,
                                !.trace = Append(@, "generate"),
                                !.protocCmd = ProtocCmd(r),
                                !.completed = IF ok THEN @ \cup {"generate"} ELSE @]
        IN  IF ok
            THEN /\ generated' = generated \cup Outputs(ProtocCmd(r))
                 /\ pc' = [pc EXCEPT ![r] = "exit"]
                 /\ exitCode' = [exitCode EXCEPT ![r] = 0]
                 /\ obs' = [obs EXCEPT ![r] = o]
                 /\ ClearWalk(r)
            ELSE /\ Die(r, "protoc", o)
                 /\ UNCHANGED generated
    /\ UNCHANGED <<tmp, fs>>

\* One step of process r.
Step(r, maxEdges, paths) ==
    \/ Start(r, paths)
    \/ ToolsDir(r)
    \/ Require(r)
    \/ Main(r)
    \/ Rmtree(r)
    \/ Mkdir(r)
    \/ Clone(r)
    \/ Build(r)
    \/ Import(r)
    \/ Add(r, maxEdges)
    \/ AddLoop(r)
    \/ Write(r)
    \/ Protoc(r)

\* Runs taken one at a time: one process, launched again after it ends.
Next == Step("p", MaxEdges, ScratchPaths)

Spec == Init /\ [][Next]_vars

\* The scratch path overlapping runs share.
SharedPath == {"tmpA"}

\* Runs that overlap on one scratch path: either process steps, in any
\* interleaving.
NextConc == \E r \in Procs : Step(r, ConcEdges, SharedPath)

SpecConc == Init /\ [][NextConc]_vars

\* Runs taken one at a time that keep running: a process that can step does.
FairSpec == Spec /\ WF_vars(Next)

(* ------------------------------------------------------------ properties *)

\* Every required tool was probed and found.
AllToolsFound(r) == obs[r].probed = Len(REQUIRED) /\ obs[r].missing = "none"

\* Process r is inside the walk of build_descriptor_set.
InWalk(r) == pc[r] \in {"import", "add"}

\* The descriptor set of process r is complete: about to be, or just, serialized.
Serialized(r) == pc[r] \in {"write", "protoc"}

RECURSIVE Closure(_, _)
\* The files reachable from S over the dependency edges d.
Closure(S, d) ==
    LET T == S \cup UNION {d[f] : f \in S}
    IN  IF T = S THEN S ELSE Closure(T, d)

\* The three root descriptors.
RootFiles == {COLLECTIONS, TYPES, SHARED}

\* What a successful run leaves under paths.root: three packages, three files each.
AllOutputs == {<<MAPPINGS[f], o>> : f \in RootFiles, o \in OUT_FLAGS}

\* C1: a run that finds a required tool missing exits non-zero at that probe,
\* having neither removed nor created the scratch workspace, created no clone
\* directory, written no descriptor file and invoked neither git nor protoc.
C1_MissingToolNoSideEffect ==
    \A r \in Procs :
        obs[r].missing # "none" =>
            /\ pc[r] = "exit"
            /\ exitCode[r] = 1
            /\ obs[r].failedAt = "require"
            /\ obs[r].gitCalls = 0
            /\ obs[r].protocCalls = 0
            /\ ~obs[r].wsRemoved
            /\ ~obs[r].wsCreated
            /\ ~obs[r].cloneOk
            /\ ~obs[r].descWritten
            /\ obs[r].trace = <<"probe">>

\* C1 witness: the last plugin is missing, and the workspace an earlier run
\* left at the same scratch path still holds its clone tree and descriptor.
C1_Witness ==
    \E r \in Procs :
        /\ obs[r].missing = "protoc-gen-go-vtproto"
        /\ pc[r] = "exit"
        /\ fs[tmp[r]].clone # NoOne
        /\ fs[tmp[r]].desc # NoOne

\* C2 as stated: every ended run that found all its tools and whose clone
\* succeeded (the ref was valid) exited 0 and produced the nine output files.
C2_Original ==
    \A r \in Procs :
        (pc[r] = "exit" /\ AllToolsFound(r) /\ obs[r].cloneOk) =>
            (exitCode[r] = 0 /\ AllOutputs \subseteq generated)

\* C2 amended: an ended run that found all its tools and whose clone
\* succeeded exited non-zero when an import or protoc failed; otherwise it
\* exited 0, having run protoc on the three target files with the three output
\* flags, and the output is three packages of three generated files each.
C2_ExitsZeroUnlessStageFails ==
    \A r \in Procs :
        (pc[r] = "exit" /\ AllToolsFound(r) /\ obs[r].cloneOk) =>
            IF obs[r].failedAt \in {"import", "protoc"}
            THEN exitCode[r] = 1
            ELSE /\ exitCode[r] = 0
                 /\ obs[r].failedAt = "none"
                 /\ obs[r].protocCmd.targets = PROTO_FILES
                 /\ obs[r].protocCmd.outs = OUT_FLAGS
                 /\ generated = AllOutputs
                 /\ Cardinality({g[1] : g \in generated}) = 3
                 /\ \A k \in {g[1] : g \in generated} :
                        Cardinality({g \in generated : g[1] = k}) = 3

\* C2 witness: a run that exited 0 after all four stages.
C2_Witness ==
    \E r \in Procs :
        /\ pc[r] = "exit"
        /\ exitCode[r] = 0
        /\ AllToolsFound(r)
        /\ obs[r].cloneOk
        /\ obs[r].completed = Range(STAGES)
        /\ generated = AllOutputs

\* C3: at every step of the walk the appended descriptors are the seen set,
\* one descriptor per name, so each file name appears exactly once in the
\* descriptor set that is serialized.
C3_DedupByName ==
    \A r \in Procs :
        /\ Len(fdset[r]) = Cardinality(seen[r])
        /\ Range(fdset[r]) = seen[r]
        /\ \A i, j \in 1..Len(fdset[r]) : fdset[r][i] = fdset[r][j] => i = j

\* C3 witness: a serialized set over a graph with a dependency cycle, where
\* some add calls met a file already seen.
C3_Witness ==
    \E r \in Procs :
        /\ pc[r] = "protoc"
        /\ obs[r].addCalls > Len(fdset[r])
        /\ \E f, g \in Files : f # g /\ g \in deps[r][f] /\ f \in deps[r][g]

\* C4: the descriptor set that is serialized is closed under dependency.
C4_ClosedUnderDependency ==
    \A r \in Procs :
        Serialized(r) =>
            \A f \in Range(fdset[r]) : deps[r][f] \subseteq Range(fdset[r])

\* C4 witness: a serialized set holding a root, a dependency of it and a
\* dependency of that dependency which is no root.
C4_Witness ==
    \E r \in Procs :
        /\ pc[r] = "protoc"
        /\ \E f \in RootFiles, g \in Files, h \in Files \ RootFiles :
            /\ g # f
            /\ g \in deps[r][f]
            /\ h \in deps[r][g]
            /\ {f, g, h} \subseteq Range(fdset[r])

\* C5: the descriptor set that is serialized holds exactly the files reachable
\* from the three roots over dependency edges, each once.
C5_ExactlyReachable ==
    \A r \in Procs :
        Serialized(r) =>
            /\ Range(fdset[r]) = Closure(RootFiles, deps[r])
            /\ Len(fdset[r]) = Cardinality(Closure(RootFiles, deps[r]))

\* C5 witness: the scenario, with A = collections, B = types, C = shared and
\* D the fourth file: A -> B, B -> D and C -> B give {A, B, C, D}.
C5_Witness ==
    \E r \in Procs :
        /\ pc[r] = "protoc"
        /\ deps[r] = (COLLECTIONS :> {TYPES}) @@ (TYPES :> {4}) @@ (SHARED :> {TYPES})
                     @@ [f \in Files |-> {}]
        /\ fdset[r] = <<COLLECTIONS, TYPES, 4, SHARED>>

\* C6: the step in which git clone fails ends the run with status 1 at the
\* clone stage: the run wrote no descriptor file, started neither the
\* assembler nor protoc, and no descriptor file is at its scratch path.
C6_CloneFailureStops ==
    [][\A r \in Procs :
        (obs'[r].gitCalls = obs[r].gitCalls + 1 /\ ~obs'[r].cloneOk) =>
            /\ pc'[r] = "exit"
            /\ exitCode'[r] = 1
            /\ obs'[r].failedAt = "clone"
            /\ ~obs'[r].descWritten
            /\ obs'[r].imported = 0
            /\ obs'[r].addCalls = 0
            /\ obs'[r].protocCalls = 0
            /\ obs'[r].trace = <<"probe", "clone">>
            /\ fs'[tmp[r]].desc = NoOne]_vars

\* C6 witness: a run ended by a failed clone after an earlier run succeeded,
\* and the descriptor file that run wrote is gone.
C6_Witness ==
    \E r \in Procs :
        /\ pc[r] = "exit"
        /\ obs[r].failedAt = "clone"
        /\ obs[r].wsRemoved
        /\ generated # {}
        /\ \A p \in ScratchPaths : fs[p].desc = NoOne

\* C7: the stages a run has started are a prefix of probe, clone, assemble,
\* generate, each started only after the one before it completed; protoc runs
\* only after the run wrote the descriptor file, and the file is written only
\* after the run's clone succeeded.
C7_StrictlyLinear ==
    \A r \in Procs :
        /\ Len(obs[r].trace) <= Len(STAGES)
        /\ \A i \in 1..Len(obs[r].trace) : obs[r].trace[i] = STAGES[i]
        /\ \A i \in 2..Len(obs[r].trace) : STAGES[i - 1] \in obs[r].completed
        /\ obs[r].protocCalls > 0 => obs[r].descWritten
        /\ obs[r].descWritten => obs[r].cloneOk
        /\ obs[r].gitCalls > 0 => AllToolsFound(r)

\* C7 witness: a run stopped in the assemble stage by a failed import, after
\* probe and clone completed and before generate started.
C7_Witness ==
    \E r \in Procs :
        /\ pc[r] = "exit"
        /\ obs[r].failedAt = "import"
        /\ obs[r].trace = <<"probe", "clone", "assemble">>
        /\ obs[r].completed = {"probe", "clone"}
        /\ obs[r].imported = 2

\* C8: a run invokes git clone at most once and protoc at most once; a run
\* that exits 0 invoked each exactly once, protoc with the descriptor file as
\* its only input, the three target files and the three output flags.
C8_NoRetries ==
    \A r \in Procs :
        /\ obs[r].gitCalls <= 1
        /\ obs[r].protocCalls <= 1
        /\ exitCode[r] = 0 =>
            /\ obs[r].gitCalls = 1
            /\ obs[r].protocCalls = 1
            /\ obs[r].protocCmd = [in |-> <<tmp[r]>>, targets |-> PROTO_FILES,
                                   outs |-> OUT_FLAGS]

\* C8 witness: a run that exited 0 with one protoc invocation on record.
C8_Witness ==
    \E r \in Procs :
        /\ exitCode[r] = 0
        /\ obs[r].protocCalls = 1
        /\ Len(obs[r].protocCmd.in) = 1
        /\ Len(obs[r].protocCmd.targets) = 3

\* C9: the reset of main is unconditional and takes no lock: a run that found
\* its scratch path present can always go on to rmtree, and rmtree leaves
\* nothing at the path, whichever run put the clone tree or the descriptor
\* file there.
C9_ResetUnconditional ==
    [][\A r \in Procs :
        /\ (pc[r] = "rmtree" /\ fs[tmp[r]].exists) => ENABLED Rmtree(r)
        /\ (pc[r] = "rmtree" /\ pc'[r] = "mkdir") => fs'[tmp[r]] = Absent]_vars

\* C9 witness: the race. Run r cloned and has not yet imported anything; run q,
\* on the same scratch path, has just removed the workspace, so r's clone tree
\* is gone and r's next import fails.
C9_Witness ==
    \E r, q \in Procs :
        /\ r # q
        /\ tmp[r] = tmp[q]
        /\ pc[r] = "import"
        /\ obs[r].cloneOk
        /\ obs[r].imported = 0
        /\ pc[q] = "mkdir"
        /\ obs[q].wsRemoved
        /\ fs[tmp[r]].clone = NoOne

\* While a run lives, add's body has run at most once per file name and the
\* number of add calls is at most the number of roots plus the number of
\* dependency edges read.
WalkBounded ==
    \A r \in Procs :
        pc[r] # "exit" =>
            /\ \A f \in Files : bodyRuns[r][f] <= 1
            /\ obs[r].addCalls <= Len(modules) + EdgeCount(deps[r])

RECURSIVE PendingUpTo(_, _)
\* Dependencies the first n frames of call stack s have still to visit.
PendingUpTo(s, n) == IF n = 0 THEN 0 ELSE Cardinality(s[n].todo) + PendingUpTo(s, n - 1)

\* Roots the loop over modules has still to import.
RootsLeft(r) == Len(modules) - rootIdx[r] + (IF pc[r] = "import" THEN 1 ELSE 0)

\* A variant of the walk: what is left to do, counting files not yet seen,
\* add calls still to make, frames to return from and frames not yet entered.
WalkMeasure(r) ==
    (3 * Cardinality(Files) + 1) * Cardinality(Files \ seen[r])
    + 3 * (RootsLeft(r) + PendingUpTo(stack[r], Len(stack[r])))
    + Len(stack[r])
    + Cardinality({i \in 1..Len(stack[r]) : ~stack[r][i].entered})

\* C10: the walk terminates on every graph, cyclic or not: add's body runs at
\* most once per file name, the number of add calls is at most the number of
\* roots plus the number of dependency edges, and every step inside the walk
\* lowers a variant that is never negative.
C10_WalkTerminates ==
    [][/\ WalkBounded
       /\ WalkBounded'
       /\ \A r \in Procs :
            (InWalk(r) /\ InWalk(r)'
                /\ <<pc[r], rootIdx[r], seen[r], stack[r]>>'
                    # <<pc[r], rootIdx[r], seen[r], stack[r]>>) =>
                (WalkMeasure(r)' < WalkMeasure(r) /\ WalkMeasure(r)' >= 0)]_vars

\* C10 witness: a finished walk over a graph with a self-dependency and a
\* two-file cycle, with one add call per root and per edge.
C10_Witness ==
    \E r \in Procs :
        /\ pc[r] = "write"
        /\ \E f \in Files : f \in deps[r][f]
        /\ \E g, h \in Files : g # h /\ h \in deps[r][g] /\ g \in deps[r][h]
        /\ obs[r].addCalls = Len(modules) + EdgeCount(deps[r])

\* Under fairness the walk, once entered, is left: it ends in write or in a
\* failed import.
WalkIsLeft == \A r \in Procs : InWalk(r) ~> ~InWalk(r)
====
